---------------------------- MODULE Spec2Model ----------------------------
(***************************************************************************)
(* Model of the protoc plugin protoc-gen-example (Generate, generateFile,  *)
(* generateMessage, getGoType, getTypeName, camelCase) and of the          *)
(* multi-target reverse proxy (MultiProxyServer).                          *)
(*                                                                         *)
(* A Go string is modelled as the sequence of its bytes (ASCII codes), so  *)
(* that indexing, slicing, comparison and concatenation are the ones the   *)
(* code performs.                                                          *)
(***************************************************************************)
EXTENDS Integers, Sequences, FiniteSets, TLC

VARIABLES
    pc,        \* position of the modelled call
    s,         \* camelCase: the argument
    result,    \* camelCase: the returned string
    field,     \* getGoType: the argument (a FieldDescriptorProto)
    goType,    \* getGoType: the returned string
    file,      \* generateFile: the argument (a FileDescriptorProto)
    code,      \* generateFile: the returned string
    req,       \* Generate: the CodeGeneratorRequest
    resp,      \* Generate: the CodeGeneratorResponse under construction
    idx,       \* Generate: position of the outer range loop in req.FileToGenerate
    routes,    \* MultiProxyServer.routes: path -> target URL
    forwarded  \* requests answered by MultiProxyServer.ServeHTTP, newest last

vars == <<pc, s, result, field, goType, file, code, req, resp, idx, routes, forwarded>>

-----------------------------------------------------------------------------
(* Bounds of the model *)

MaxNameLen == 4     \* longest generated field name given to camelCase
MaxRefLen == 3      \* longest generated type reference given to getGoType
MaxMsgs == 3        \* message descriptors in a file given to generateFile
MaxRequested == 2   \* names in FileToGenerate
MaxPool == 2        \* descriptors in ProtoFile
MaxServed == 2      \* requests served by the proxy in one behaviour

-----------------------------------------------------------------------------
(* String helpers *)

StringsUpTo(alphabet, n) == UNION {[1..k -> alphabet] : k \in 0..n}

RECURSIVE Concat(_)
Concat(strs) == IF strs = <<>> THEN <<>> ELSE Head(strs) \o Concat(Tail(strs))

HasPrefix(str, p) == Len(str) >= Len(p) /\ SubSeq(str, 1, Len(p)) = p

-----------------------------------------------------------------------------
(* String literals of main.go *)

LitGeneratedGo == <<46, 103, 101, 110, 101, 114, 97, 116, 101, 100, 46, 103, 111>>  \* ".generated.go"
LitMain == <<109, 97, 105, 110>>  \* "main"
LitPackage == <<112, 97, 99, 107, 97, 103, 101, 32>>  \* "package "
LitNlNl == <<10, 10>>  \* "\n\n"
LitComment == <<47, 47, 32, 71, 101, 110, 101, 114, 97, 116, 101, 100, 32, 99, 111, 100, 101, 32, 102, 111, 114, 32, 109, 101, 115, 115, 97, 103, 101, 58, 32>>  \* "// Generated code for message: "
LitNl == <<10>>  \* "\n"
LitType == <<116, 121, 112, 101, 32>>  \* "type "
LitStructOpen == <<32, 115, 116, 114, 117, 99, 116, 32, 123, 10>>  \* " struct {\n"
LitTab == <<9>>  \* "\t"
LitSpace == <<32>>  \* " "
LitJsonOpen == <<32, 96, 106, 115, 111, 110, 58, 34>>  \* " `json:\""
LitJsonClose == <<34, 96, 10>>  \* "\"`\n"
LitStructClose == <<125, 10, 10>>  \* "}\n\n"
LitUnderscore == <<95>>  \* "_"
LitString == <<115, 116, 114, 105, 110, 103>>  \* "string"
LitInt32 == <<105, 110, 116, 51, 50>>  \* "int32"
LitInt64 == <<105, 110, 116, 54, 52>>  \* "int64"
LitUint32 == <<117, 105, 110, 116, 51, 50>>  \* "uint32"
LitUint64 == <<117, 105, 110, 116, 54, 52>>  \* "uint64"
LitBool == <<98, 111, 111, 108>>  \* "bool"
LitFloat32 == <<102, 108, 111, 97, 116, 51, 50>>  \* "float32"
LitFloat64 == <<102, 108, 111, 97, 116, 54, 52>>  \* "float64"
LitBytes == <<91, 93, 98, 121, 116, 101>>  \* "[]byte"
LitStar == <<42>>  \* "*"
LitInterface == <<105, 110, 116, 101, 114, 102, 97, 99, 101, 123, 125>>  \* "interface{}"
LitSlice == <<91, 93>>  \* "[]"

-----------------------------------------------------------------------------
(* camelCase, main.go:188-212.  The loop index i is 1-based here. *)

RECURSIVE camelCaseLoop(_, _, _, _)
camelCaseLoop(str, i, res, nextUpper) ==
    IF i > Len(str) THEN res
    ELSE LET c == str[i] IN
         IF c = 95                                   \* c == '_'
         THEN camelCaseLoop(str, i + 1, res, TRUE)
         ELSE IF nextUpper
              THEN IF c >= 97 /\ c <= 122            \* c >= 'a' && c <= 'z'
                   THEN camelCaseLoop(str, i + 1, Append(res, c - 32), FALSE)
                   ELSE camelCaseLoop(str, i + 1, Append(res, c), FALSE)
              ELSE camelCaseLoop(str, i + 1, Append(res, c), nextUpper)

\* A camelCase whose underscore branch forgets nextUpper = true.
RECURSIVE camelCaseLoopNoReset(_, _, _, _)
camelCaseLoopNoReset(str, i, res, nextUpper) ==
    IF i > Len(str) THEN res
    ELSE LET c == str[i] IN
         IF c = 95
         THEN camelCaseLoopNoReset(str, i + 1, res, nextUpper)
         ELSE IF nextUpper
              THEN IF c >= 97 /\ c <= 122
                   THEN camelCaseLoopNoReset(str, i + 1, Append(res, c - 32), FALSE)
                   ELSE camelCaseLoopNoReset(str, i + 1, Append(res, c), FALSE)
              ELSE camelCaseLoopNoReset(str, i + 1, Append(res, c), nextUpper)

camelCaseNoReset(str) ==
    IF str = <<>> THEN <<>> ELSE camelCaseLoopNoReset(str, 1, <<>>, TRUE)

camelCase(str) ==
    IF str = <<>> THEN <<>> ELSE camelCaseLoop(str, 1, <<>>, TRUE)

-----------------------------------------------------------------------------
(* getTypeName, main.go:179-186.  i runs from len(fullName)-1 down to 0 in *)
(* the code, from Len(fullName) down to 1 here.                            *)

RECURSIVE getTypeNameLoop(_, _)
getTypeNameLoop(fullName, i) ==
    IF i < 1 THEN fullName
    ELSE IF fullName[i] = 46                         \* fullName[i] == '.'
         THEN SubSeq(fullName, i + 1, Len(fullName))
         ELSE getTypeNameLoop(fullName, i - 1)

\* A getTypeName that scans from the front and cuts at the first dot.
RECURSIVE getTypeNameFirstDotLoop(_, _)
getTypeNameFirstDotLoop(fullName, i) ==
    IF i > Len(fullName) THEN fullName
    ELSE IF fullName[i] = 46
         THEN SubSeq(fullName, i + 1, Len(fullName))
         ELSE getTypeNameFirstDotLoop(fullName, i + 1)

getTypeNameFirstDot(fullName) == getTypeNameFirstDotLoop(fullName, 1)

getTypeName(fullName) == getTypeNameLoop(fullName, Len(fullName))

-----------------------------------------------------------------------------
(* Field descriptors.  type and label are optional proto2 fields: "nil"    *)
(* is the unset field, for which the generated getters return the enum's   *)
(* first value.                                                            *)

FieldTypes ==
    {"TYPE_DOUBLE", "TYPE_FLOAT", "TYPE_INT64", "TYPE_UINT64", "TYPE_INT32",
     "TYPE_FIXED64", "TYPE_FIXED32", "TYPE_BOOL", "TYPE_STRING", "TYPE_GROUP",
     "TYPE_MESSAGE", "TYPE_BYTES", "TYPE_UINT32", "TYPE_ENUM", "TYPE_SFIXED32",
     "TYPE_SFIXED64", "TYPE_SINT32", "TYPE_SINT64"}

FieldLabels == {"LABEL_OPTIONAL", "LABEL_REQUIRED", "LABEL_REPEATED"}

GetType(f) == IF f.type = "nil" THEN "TYPE_DOUBLE" ELSE f.type

GetLabel(f) == IF f.label = "nil" THEN "LABEL_OPTIONAL" ELSE f.label

(* getGoType, main.go:142-177 *)

baseTypeOf(f) ==
    CASE GetType(f) = "TYPE_STRING"  -> LitString
      [] GetType(f) = "TYPE_INT32"   -> LitInt32
      [] GetType(f) = "TYPE_INT64"   -> LitInt64
      [] GetType(f) = "TYPE_UINT32"  -> LitUint32
      [] GetType(f) = "TYPE_UINT64"  -> LitUint64
      [] GetType(f) = "TYPE_BOOL"    -> LitBool
      [] GetType(f) = "TYPE_FLOAT"   -> LitFloat32
      [] GetType(f) = "TYPE_DOUBLE"  -> LitFloat64
      [] GetType(f) = "TYPE_BYTES"   -> LitBytes
      [] GetType(f) = "TYPE_MESSAGE" -> LitStar \o getTypeName(f.type_name)
      [] GetType(f) = "TYPE_ENUM"    -> getTypeName(f.type_name)
      [] OTHER                       -> LitInterface

getGoType(f) ==
    LET isRepeated == GetLabel(f) = "LABEL_REPEATED"
    IN  IF isRepeated THEN LitSlice \o baseTypeOf(f) ELSE baseTypeOf(f)

-----------------------------------------------------------------------------
(* generateMessage, main.go:122-140 *)

fieldLine(f) ==
    LET fieldName == camelCase(f.name)
        fieldType == getGoType(f)
    IN  LitTab \o fieldName \o LitSpace \o fieldType \o LitJsonOpen \o f.name \o LitJsonClose

\* A generateMessage that passes msg.GetName()+"_" (not msgName+"_") down.
RECURSIVE generateMessageShortPrefix(_, _)
generateMessageShortPrefix(msg, prefix) ==
    LET msgName == prefix \o msg.name
        head == LitComment \o msgName \o LitNl \o LitType \o msgName \o LitStructOpen
        fields == Concat([i \in DOMAIN msg.field |-> fieldLine(msg.field[i])])
        nested == Concat([i \in DOMAIN msg.nested_type |->
                     generateMessageShortPrefix(msg.nested_type[i], msg.name \o LitUnderscore)])
    IN  head \o fields \o LitStructClose \o nested

\* A generateMessage that emits the nested messages before its own struct.
RECURSIVE generateMessageNestedFirst(_, _)
generateMessageNestedFirst(msg, prefix) ==
    LET msgName == prefix \o msg.name
        head == LitComment \o msgName \o LitNl \o LitType \o msgName \o LitStructOpen
        fields == Concat([i \in DOMAIN msg.field |-> fieldLine(msg.field[i])])
        nested == Concat([i \in DOMAIN msg.nested_type |->
                     generateMessageNestedFirst(msg.nested_type[i], msgName \o LitUnderscore)])
    IN  nested \o head \o fields \o LitStructClose

RECURSIVE generateMessage(_, _)
generateMessage(msg, prefix) ==
    LET msgName == prefix \o msg.name
        head == LitComment \o msgName \o LitNl \o LitType \o msgName \o LitStructOpen
        fields == Concat([i \in DOMAIN msg.field |-> fieldLine(msg.field[i])])
        nested == Concat([i \in DOMAIN msg.nested_type |->
                     generateMessage(msg.nested_type[i], msgName \o LitUnderscore)])
    IN  head \o fields \o LitStructClose \o nested

(* generateFile, main.go:106-120 *)

\* A generateFile without the "main" default for an empty package.
generateFileNoDefault(f) ==
    LitPackage \o f.package \o LitNlNl
        \o Concat([i \in DOMAIN f.message_type |-> generateMessage(f.message_type[i], <<>>)])

generateFile(f) ==
    LET pkgName == IF f.package = <<>> THEN LitMain ELSE f.package
    IN  LitPackage \o pkgName \o LitNlNl
            \o Concat([i \in DOMAIN f.message_type |-> generateMessage(f.message_type[i], <<>>)])

-----------------------------------------------------------------------------
(* Generate, main.go:77-104 *)

FEATURE_PROTO3_OPTIONAL == 1

\* The inner range loop of Generate (main.go:82-87) that stops at the first
\* descriptor whose name equals fileName.  0 stands for file == nil.
RECURSIVE findFileFrom(_, _, _)
findFileFrom(protoFile, fileName, k) ==
    IF k > Len(protoFile) THEN 0
    ELSE IF protoFile[k].name = fileName THEN k
         ELSE findFileFrom(protoFile, fileName, k + 1)

\* The inner loop without its break: the last descriptor of that name wins.
RECURSIVE findFileNoBreakFrom(_, _, _, _)
findFileNoBreakFrom(protoFile, fileName, k, found) ==
    IF k > Len(protoFile) THEN found
    ELSE IF protoFile[k].name = fileName
         THEN findFileNoBreakFrom(protoFile, fileName, k + 1, k)
         ELSE findFileNoBreakFrom(protoFile, fileName, k + 1, found)

findFileNoBreak(protoFile, fileName) == findFileNoBreakFrom(protoFile, fileName, 1, 0)

\* The inner loop comparing with strings.HasPrefix instead of ==.
RECURSIVE findFilePrefixFrom(_, _, _)
findFilePrefixFrom(protoFile, fileName, k) ==
    IF k > Len(protoFile) THEN 0
    ELSE IF HasPrefix(fileName, protoFile[k].name) THEN k
         ELSE findFilePrefixFrom(protoFile, fileName, k + 1)

findFilePrefix(protoFile, fileName) == findFilePrefixFrom(protoFile, fileName, 1)

findFile(protoFile, fileName) == findFileFrom(protoFile, fileName, 1)

-----------------------------------------------------------------------------
(* Inputs *)

\* Field names: every string over a small alphabet, and the two documented examples.
NameAlphabet == {97, 122, 95, 66, 49}     \* 'a' 'z' '_' 'B' '1'

ExUserId == <<117, 115, 101, 114, 95, 105, 100>>        \* "user_id"
ExUnderscores == <<95, 95, 97, 95, 98, 95, 95>>         \* "__a_b__"

FieldNames == StringsUpTo(NameAlphabet, MaxNameLen) \cup {ExUserId, ExUnderscores}

\* Type references: every string over '.', 'a', 'B', and the documented example.
RefAlphabet == {46, 97, 66}

ExOuterInner == <<46, 112, 107, 103, 46, 79, 117, 116, 101, 114, 46, 73, 110, 110, 101, 114>>  \* ".pkg.Outer.Inner"

TypeRefs == StringsUpTo(RefAlphabet, MaxRefLen) \cup {ExOuterInner}

Fields ==
    [name : {<<102>>},                                  \* "f"
     type : FieldTypes \cup {"nil"},
     label : FieldLabels \cup {"nil"},
     type_name : TypeRefs]

\* Messages of a file: ordered forests with n message descriptors in all,
\* each with a name and a field list from MsgHeads.
\* Message names are "A" and "Bb".

FieldId == [name |-> <<105, 100>>, type |-> "TYPE_INT32",
            label |-> "LABEL_OPTIONAL", type_name |-> <<>>]                       \* id
FieldTags == [name |-> <<116, 95, 115>>, type |-> "TYPE_STRING",
              label |-> "LABEL_REPEATED", type_name |-> <<>>]                     \* t_s
FieldTop == [name |-> <<97>>, type |-> "TYPE_MESSAGE",
             label |-> "LABEL_OPTIONAL", type_name |-> <<46, 112, 46, 65>>]       \* a: .p.A
FieldIn == [name |-> <<105, 110>>, type |-> "TYPE_MESSAGE",
            label |-> "LABEL_REPEATED", type_name |-> <<46, 112, 46, 65, 46, 66, 98>>]  \* in: .p.A.Bb

MsgHeads ==
    {[name |-> <<65>>, field |-> <<>>],
     [name |-> <<65>>, field |-> <<FieldTags, FieldId>>],
     [name |-> <<66, 98>>, field |-> <<>>],
     [name |-> <<66, 98>>, field |-> <<FieldTop, FieldIn>>]}

RECURSIVE ForestsOf(_)
ForestsOf(n) ==
    IF n = 0 THEN {<<>>}
    ELSE UNION {
           {<<[name |-> h.name, field |-> h.field, nested_type |-> kids]>> \o rest :
                h \in MsgHeads,
                kids \in ForestsOf(a), rest \in ForestsOf(n - 1 - a)}
           : a \in 0..(n - 1)}

Files ==
    [name : {<<102>>},                                  \* "f"
     package : {<<>>, <<112>>},                         \* "" "p"
     message_type : UNION {ForestsOf(n) : n \in 0..MaxMsgs}]

\* Requests: names "x", "xy", "z"; the pool holds descriptors named "x" or
\* "xy" only, two of different content for each name.
RequestNames == {<<120>>, <<120, 121>>, <<122>>}

PoolFiles ==
    [name : {<<120>>, <<120, 121>>},
     package : {<<>>, <<112>>},
     message_type : {<<[name |-> <<65>>, field |-> <<FieldId>>, nested_type |-> <<>>]>>}]

SeqsUpTo(S, n) == UNION {[1..k -> S] : k \in 0..n}

Requests ==
    [file_to_generate : SeqsUpTo(RequestNames, MaxRequested),
     proto_file : SeqsUpTo(PoolFiles, MaxPool)]

-----------------------------------------------------------------------------
(* State of the calls that a specification does not exercise *)

NoField == [name |-> <<>>, type |-> "nil", label |-> "nil", type_name |-> <<>>]
NoFile == [name |-> <<>>, package |-> <<>>, message_type |-> <<>>]
NoRequest == [file_to_generate |-> <<>>, proto_file |-> <<>>]
NewResponse == [file |-> <<>>, supported_features |-> 0]   \* &CodeGeneratorResponse{}

IdleCamel == s = <<>> /\ result = <<>>
IdleType == field = NoField /\ goType = <<>>
IdleFile == file = NoFile /\ code = <<>>
IdleGenerate == req = NoRequest /\ resp = NewResponse /\ idx = 0
IdleProxy == routes = {} /\ forwarded = <<>>

-----------------------------------------------------------------------------
(* camelCase called on a field name *)

InitCamel ==
    /\ pc = "camelCase"
    /\ s \in FieldNames
    /\ result = <<>>
    /\ IdleType /\ IdleFile /\ IdleGenerate /\ IdleProxy

CallCamelCase ==
    /\ pc = "camelCase"
    /\ result' = camelCase(s)
    /\ pc' = "returned"
    /\ UNCHANGED <<s, field, goType, file, code, req, resp, idx, routes, forwarded>>

NextCamel == CallCamelCase

SpecCamel == InitCamel /\ [][NextCamel]_vars

(* getGoType called on a field descriptor *)

InitType ==
    /\ pc = "getGoType"
    /\ field \in Fields
    /\ goType = <<>>
    /\ IdleCamel /\ IdleFile /\ IdleGenerate /\ IdleProxy

CallGetGoType ==
    /\ pc = "getGoType"
    /\ goType' = getGoType(field)
    /\ pc' = "returned"
    /\ UNCHANGED <<s, result, field, file, code, req, resp, idx, routes, forwarded>>

NextType == CallGetGoType

SpecType == InitType /\ [][NextType]_vars

(* generateFile called on a file descriptor *)

InitFile ==
    /\ pc = "generateFile"
    /\ file \in Files
    /\ code = <<>>
    /\ IdleCamel /\ IdleType /\ IdleGenerate /\ IdleProxy

CallGenerateFile ==
    /\ pc = "generateFile"
    /\ code' = generateFile(file)
    /\ pc' = "returned"
    /\ UNCHANGED <<s, result, field, goType, file, req, resp, idx, routes, forwarded>>

NextFile == CallGenerateFile

SpecFile == InitFile /\ [][NextFile]_vars

(* Generate called on a request: one action per iteration of the outer loop *)

InitGenerate ==
    /\ pc = "Generate"
    /\ req \in Requests
    /\ resp = NewResponse
    /\ idx = 1
    /\ IdleCamel /\ IdleType /\ IdleFile /\ IdleProxy

\* main.go:89-91: file == nil, continue
GenerateSkip ==
    /\ pc = "Generate"
    /\ idx <= Len(req.file_to_generate)
    /\ findFile(req.proto_file, req.file_to_generate[idx]) = 0
    /\ idx' = idx + 1
    /\ UNCHANGED <<pc, s, result, field, goType, file, code, req, resp, routes, forwarded>>

\* main.go:93-98
GenerateAppend ==
    /\ pc = "Generate"
    /\ idx <= Len(req.file_to_generate)
    /\ LET fileName == req.file_to_generate[idx]
           k == findFile(req.proto_file, fileName)
       IN  /\ k # 0
           /\ LET content == generateFile(req.proto_file[k])
              IN  resp' = [resp EXCEPT !.file =
                              Append(@, [name |-> fileName \o LitGeneratedGo,
                                         content |-> content])]
    /\ idx' = idx + 1
    /\ UNCHANGED <<pc, s, result, field, goType, file, code, req, routes, forwarded>>

\* A return that declares the feature only when some file was generated.
GenerateReturnIfGenerated ==
    /\ pc = "Generate"
    /\ idx > Len(req.file_to_generate)
    /\ resp' = [resp EXCEPT !.supported_features =
                    IF resp.file = <<>> THEN 0 ELSE FEATURE_PROTO3_OPTIONAL]
    /\ pc' = "returned"
    /\ UNCHANGED <<s, result, field, goType, file, code, req, idx, routes, forwarded>>

\* main.go:101-103
GenerateReturn ==
    /\ pc = "Generate"
    /\ idx > Len(req.file_to_generate)
    /\ resp' = [resp EXCEPT !.supported_features = FEATURE_PROTO3_OPTIONAL]
    /\ pc' = "returned"
    /\ UNCHANGED <<s, result, field, goType, file, code, req, idx, routes, forwarded>>

NextGenerate == GenerateSkip \/ GenerateAppend \/ GenerateReturn

SpecGenerate == InitGenerate /\ [][NextGenerate]_vars

-----------------------------------------------------------------------------
(* The multi-target proxy: MultiProxyServer, AddRoute, ServeHTTP and the   *)
(* route table startProxyServer builds.  routes is the Go map, held as the *)
(* set of its entries (at most one per path).                              *)

PathApi == <<47, 97, 112, 105>>                 \* "/api"
PathStatic == <<47, 115, 116, 97, 116, 105, 99>>  \* "/static"
PathRoot == <<47>>                              \* "/"

Target8081 == "http://localhost:8081"
Target8082 == "http://localhost:8082"
Target8083 == "http://localhost:8083"
NotFound == "404 page not found"                \* http.NotFound

\* Paths of the requests sent to the proxy
RequestPaths ==
    {<<47, 97, 112, 105, 47, 116, 101, 115, 116>>,     \* "/api/test"
     <<47, 115, 116, 97, 116, 105, 99, 47, 99, 115, 115, 47, 115, 116, 121, 108, 101, 46, 99, 115, 115>>,  \* "/static/css/style.css"
     <<47, 104, 111, 109, 101>>,                       \* "/home"
     <<47, 97, 112, 112, 108, 101>>,                   \* "/apple"
     PathApi, PathStatic, PathRoot}

\* The orders in which a range statement may visit the entries of a map:
\* the Go specification leaves the iteration order unspecified.
RangeOrders(m) ==
    {o \in [1..Cardinality(m) -> m] : \A i, j \in DOMAIN o : i # j => o[i] # o[j]}

\* The condition of the range loop, part_001:91
routeMatches(urlPath, path) ==
    Len(urlPath) >= Len(path) /\ SubSeq(urlPath, 1, Len(path)) = path

\* part_001:90-100 with the entries visited in the order o
serveInOrder(urlPath, o) ==
    LET hits == {k \in DOMAIN o : routeMatches(urlPath, o[k].path)}
    IN  IF hits = {} THEN NotFound
        ELSE o[CHOOSE k \in hits : \A h \in hits : k <= h].target

InitProxy ==
    /\ pc = "AddRoute /api"
    /\ routes = {}
    /\ forwarded = <<>>
    /\ IdleCamel /\ IdleType /\ IdleFile /\ IdleGenerate

\* part_001:78-85, m.routes[path] = proxy
AddRoute(path, targetURL) ==
    routes' = {r \in routes : r.path # path} \cup {[path |-> path, target |-> targetURL]}

\* part_001:225-227
StartProxyServer ==
    /\ \/ pc = "AddRoute /api" /\ AddRoute(PathApi, Target8081) /\ pc' = "AddRoute /static"
       \/ pc = "AddRoute /static" /\ AddRoute(PathStatic, Target8082) /\ pc' = "AddRoute /"
       \/ pc = "AddRoute /" /\ AddRoute(PathRoot, Target8083) /\ pc' = "ListenAndServe"
    /\ UNCHANGED <<s, result, field, goType, file, code, req, resp, idx, forwarded>>

\* part_001:88-101
ServeHTTP ==
    /\ pc = "ListenAndServe"
    /\ Len(forwarded) < MaxServed
    /\ \E urlPath \in RequestPaths, o \in RangeOrders(routes) :
          forwarded' = Append(forwarded, [path |-> urlPath, target |-> serveInOrder(urlPath, o)])
    /\ UNCHANGED <<pc, s, result, field, goType, file, code, req, resp, idx, routes>>

NextProxy == StartProxyServer \/ ServeHTTP

SpecProxy == InitProxy /\ [][NextProxy]_vars

-----------------------------------------------------------------------------
(* Vocabulary of the properties: text read back line by line, and the      *)
(* descriptor tree addressed by index paths.                               *)

HasSuffix(str, suf) ==
    Len(str) >= Len(suf) /\ SubSeq(str, Len(str) - Len(suf) + 1, Len(str)) = suf

\* Index of the first sep in str at or after start, 0 when there is none
NextSep(str, sep, start) ==
    LET at == {i \in start..Len(str) : str[i] = sep}
    IN  IF at = {} THEN 0 ELSE CHOOSE i \in at : \A j \in at : i <= j

RECURSIVE SplitFrom(_, _, _)
SplitFrom(str, sep, start) ==
    LET nxt == NextSep(str, sep, start)
    IN  IF nxt = 0 THEN <<SubSeq(str, start, Len(str))>>
        ELSE <<SubSeq(str, start, nxt - 1)>> \o SplitFrom(str, sep, nxt + 1)

Split(str, sep) == SplitFrom(str, sep, 1)

Lines(text) == Split(text, 10)

RECURSIVE JoinWith(_, _)
JoinWith(strs, sep) ==
    IF Len(strs) = 1 THEN strs[1] ELSE strs[1] \o sep \o JoinWith(Tail(strs), sep)

IsTypeLine(line) == HasPrefix(line, LitType)

\* Indices, ascending, of the lines of text that open a type definition
TypeLineIndices(text) ==
    LET L == Lines(text)
    IN  SelectSeq([k \in 1..Len(L) |-> k], LAMBDA k : IsTypeLine(L[k]))

\* A path <<i1, ..., in>> names the in-th nested message of ... of the i1-th
\* top-level message.
RECURSIVE PathsOf(_)
PathsOf(forest) ==
    UNION {{<<i>>} \cup {<<i>> \o q : q \in PathsOf(forest[i].nested_type)} : i \in DOMAIN forest}

RECURSIVE NodeAt(_, _)
NodeAt(forest, p) ==
    IF Len(p) = 1 THEN forest[p[1]] ELSE NodeAt(forest[p[1]].nested_type, Tail(p))

\* Names of the messages from the outermost enclosing one down to the one at p
Chain(forest, p) == [k \in 1..Len(p) |-> NodeAt(forest, SubSeq(p, 1, k)).name]

\* Depth-first pre-order: an ancestor before its descendants, an earlier
\* sibling's whole subtree before a later sibling.
Before(p, q) ==
    \/ Len(p) < Len(q) /\ SubSeq(q, 1, Len(p)) = p
    \/ \E k \in 1..Len(p) :
          /\ k <= Len(q)
          /\ SubSeq(p, 1, k - 1) = SubSeq(q, 1, k - 1)
          /\ p[k] < q[k]

PreOrderPos(forest, p) == 1 + Cardinality({q \in PathsOf(forest) : Before(q, p)})

-----------------------------------------------------------------------------
(* What the Identifier Normalizer is to return *)

Capitalized(seg) ==
    <<IF Head(seg) \in 97..122 THEN Head(seg) - 32 ELSE Head(seg)>> \o Tail(seg)

CamelOf(name) ==
    LET segs == SelectSeq(Split(name, 95), LAMBDA g : g # <<>>)
    IN  Concat([k \in DOMAIN segs |-> Capitalized(segs[k])])

\* C5: camelCase returns the non-empty underscore-delimited segments of the
\* name, in order and without separator, each with its first letter
\* capitalized and the rest unchanged; the result holds no underscore; the
\* empty name gives the empty result; "user_id" gives "UserId" and "__a_b__"
\* gives "AB".
C5_CamelCase ==
    pc = "returned" =>
        /\ result = CamelOf(s)
        /\ \A k \in DOMAIN result : result[k] # 95
        /\ (s = <<>> => result = <<>>)
        /\ (s = ExUserId => result = <<85, 115, 101, 114, 73, 100>>)    \* "UserId"
        /\ (s = ExUnderscores => result = <<65, 66>>)                   \* "AB"

C5_Witness == pc = "returned" /\ s = ExUnderscores /\ result = <<65, 66>>

-----------------------------------------------------------------------------
(* What the Type Resolver is to return *)

PrimitiveName ==
    [k \in {"TYPE_STRING", "TYPE_INT32", "TYPE_INT64", "TYPE_UINT32", "TYPE_UINT64",
            "TYPE_BOOL", "TYPE_FLOAT", "TYPE_DOUBLE", "TYPE_BYTES"} |->
        CASE k = "TYPE_STRING" -> <<115, 116, 114, 105, 110, 103>>
          [] k = "TYPE_INT32"  -> <<105, 110, 116, 51, 50>>
          [] k = "TYPE_INT64"  -> <<105, 110, 116, 54, 52>>
          [] k = "TYPE_UINT32" -> <<117, 105, 110, 116, 51, 50>>
          [] k = "TYPE_UINT64" -> <<117, 105, 110, 116, 54, 52>>
          [] k = "TYPE_BOOL"   -> <<98, 111, 111, 108>>
          [] k = "TYPE_FLOAT"  -> <<102, 108, 111, 97, 116, 51, 50>>
          [] k = "TYPE_DOUBLE" -> <<102, 108, 111, 97, 116, 54, 52>>
          [] k = "TYPE_BYTES"  -> <<91, 93, 98, 121, 116, 101>>]

\* The suffix of ref that holds no dot and is all of ref or follows a dot
LastSegment(ref) ==
    CHOOSE t \in {SubSeq(ref, k, Len(ref)) : k \in 1..(Len(ref) + 1)} :
        /\ \A i \in DOMAIN t : t[i] # 46
        /\ t = ref \/ ref[Len(ref) - Len(t)] = 46

ElementType(f) ==
    LET kind == GetType(f)
    IN  IF kind \in DOMAIN PrimitiveName THEN PrimitiveName[kind]
        ELSE IF kind = "TYPE_MESSAGE" THEN <<42>> \o LastSegment(f.type_name)
        ELSE IF kind = "TYPE_ENUM" THEN LastSegment(f.type_name)
        ELSE <<105, 110, 116, 101, 114, 102, 97, 99, 101, 123, 125>>

\* C4: getGoType returns the element type, prefixed with "[]" exactly when
\* the label is repeated; the element type is the primitive name of a scalar
\* kind, "*" and the last dot-delimited segment of the type reference for a
\* message kind, that segment alone for an enum kind, "interface{}" for any
\* other kind; a reference without a dot is its own last segment.
C4_GetGoType ==
    pc = "returned" =>
        goType = (IF GetLabel(field) = "LABEL_REPEATED" THEN <<91, 93>> ELSE <<>>)
                     \o ElementType(field)

C4_Witness ==
    /\ pc = "returned"
    /\ field.type = "TYPE_MESSAGE" /\ field.label = "LABEL_REPEATED"
    /\ field.type_name = ExOuterInner
    /\ goType = <<91, 93, 42, 73, 110, 110, 101, 114>>                  \* "[]*Inner"

-----------------------------------------------------------------------------
(* Properties of generateFile and generateMessage *)

\* The type name a message at path p is to be emitted under
ChainName(forest, p) == JoinWith(Chain(forest, p), <<95>>)

\* The name on the n-th type line of text
EmittedTypeName(text, n) ==
    LET line == Lines(text)[TypeLineIndices(text)[n]]
    IN  SubSeq(line, Len(LitType) + 1, Len(line) - 9)      \* less " struct {"

\* C3: the type name emitted for a message at any nesting depth is the names
\* of its enclosing messages, outermost first, then its own name, joined by
\* single underscores; a top-level message is emitted under its own name.
C3_NestedNaming ==
    pc = "returned" =>
        LET forest == file.message_type
            L == Lines(code)
            T == TypeLineIndices(code)
        IN  /\ Len(T) = Cardinality(PathsOf(forest))
            /\ \A p \in PathsOf(forest) :
                  LET n == PreOrderPos(forest, p)
                  IN  /\ L[T[n]] = <<116, 121, 112, 101, 32>> \o ChainName(forest, p)
                                       \o <<32, 115, 116, 114, 117, 99, 116, 32, 123>>
                      /\ Len(p) = 1 => EmittedTypeName(code, n) = NodeAt(forest, p).name

C3_Witness ==
    /\ pc = "returned"
    /\ Len(file.message_type) = 1
    /\ \E p \in PathsOf(file.message_type) :
          /\ Len(p) = 3
          /\ EmittedTypeName(code, 3) = <<65, 95, 66, 98, 95, 65>>      \* "A_Bb_A"

\* C6: generateMessage emits exactly one type definition per message
\* descriptor, in depth-first pre-order; a definition holds one member per
\* field, in field order, and the nested definitions follow it, each nested
\* subtree complete before the next sibling.
C6_PreOrderEmission ==
    pc = "returned" =>
        LET forest == file.message_type
            L == Lines(code)
            T == TypeLineIndices(code)
            P == PathsOf(forest)
        IN  /\ Len(T) = Cardinality(P)
            /\ \A p \in P :
                  LET m == NodeAt(forest, p)
                      k == T[PreOrderPos(forest, p)]
                      nf == Len(m.field)
                  IN  /\ HasSuffix(L[k], m.name \o <<32, 115, 116, 114, 117, 99, 116, 32, 123>>)
                      /\ \A j \in 1..nf :
                            /\ HasPrefix(L[k + j], <<9>>)
                            /\ HasSuffix(L[k + j], <<106, 115, 111, 110, 58, 34>>     \* json:"
                                                      \o m.field[j].name \o <<34, 96>>)
                      /\ L[k + nf + 1] = <<125>>                                      \* }
                      /\ L[k + nf + 2] = <<>>
                      \* the next definition, if any, starts right after the blank line
                      /\ k + nf + 4 <= Len(L) => IsTypeLine(L[k + nf + 4])
                      /\ k + nf + 4 > Len(L) => k + nf + 3 = Len(L)

C6_Witness ==
    /\ pc = "returned"
    /\ Len(file.message_type) = 2
    /\ Len(file.message_type[1].nested_type) = 1
    /\ file.message_type[1].field = <<FieldTags, FieldId>>
    /\ file.message_type[1].nested_type[1].name = <<66, 98>>
    /\ file.message_type[2].name = <<66, 98>>
    /\ EmittedTypeName(code, 2) = <<65, 95, 66, 98>>                    \* "A_Bb"
    /\ EmittedTypeName(code, 3) = <<66, 98>>                            \* "Bb"

\* C8: the text generateFile returns begins with a namespace declaration
\* line naming the descriptor's package, or "main" when the package is empty
\* (never an empty or omitted declaration), followed by the Message Emitter
\* output of every top-level message in declaration order, with a blank line
\* between consecutive message blocks.
C8_FileLayout ==
    pc = "returned" =>
        LET L == Lines(code)
            decl == <<112, 97, 99, 107, 97, 103, 101, 32>>
                        \o (IF file.package = <<>> THEN <<109, 97, 105, 110>> ELSE file.package)
            blocks == [i \in DOMAIN file.message_type |-> generateMessage(file.message_type[i], <<>>)]
        IN  /\ L[1] = decl
            /\ Len(L[1]) > 8
            /\ L[2] = <<>>
            /\ code = decl \o <<10, 10>> \o Concat(blocks)
            /\ \A i \in DOMAIN blocks : HasSuffix(blocks[i], <<10, 10>>)

C8_Witness ==
    /\ pc = "returned"
    /\ file.package = <<>>
    /\ Len(file.message_type) = 2
    /\ Lines(code)[1] = <<112, 97, 99, 107, 97, 103, 101, 32, 109, 97, 105, 110>>   \* "package main"

\* The fully-qualified name of the message at path p of file f
FullName(f, p) ==
    <<46>> \o (IF f.package = <<>> THEN <<>> ELSE f.package \o <<46>>)
           \o JoinWith(Chain(f.message_type, p), <<46>>)

\* C2: for every message-kind or enum-kind field whose type reference is the
\* fully-qualified name of a message declared in the generated file, at any
\* nesting depth, the name the Type Resolver derives from the reference is
\* the type name under which the Message Emitter emits that message.
C2_ReferenceResolvesToEmittedName ==
    pc = "returned" =>
        LET forest == file.message_type
        IN  \A p, q \in PathsOf(forest) :
               \A j \in DOMAIN NodeAt(forest, q).field :
                  LET f == NodeAt(forest, q).field[j]
                  IN  (GetType(f) \in {"TYPE_MESSAGE", "TYPE_ENUM"}
                         /\ f.type_name = FullName(file, p))
                      => getTypeName(f.type_name) = EmittedTypeName(code, PreOrderPos(forest, p))

-----------------------------------------------------------------------------
(* Properties of Generate *)

\* The pool holds a descriptor of exactly this name
InPool(fileName) == \E k \in DOMAIN req.proto_file : req.proto_file[k].name = fileName

\* The requested names that the pool holds, in request order
MatchedNames == SelectSeq(req.file_to_generate, InPool)

\* C1: the file records of the response are, in the order of the names to
\* generate, one record per requested name for which the pool holds a
\* descriptor of exactly equal name; an absent name produces no record (one
\* absent name: one record fewer than names requested); a record's name is
\* the requested name followed by ".generated.go".
C1_RecordsFollowRequest ==
    pc = "returned" =>
        LET absent == {i \in DOMAIN req.file_to_generate : ~InPool(req.file_to_generate[i])}
        IN  /\ Len(resp.file) = Len(MatchedNames)
            /\ \A k \in DOMAIN resp.file :
                  resp.file[k].name = MatchedNames[k]
                      \o <<46, 103, 101, 110, 101, 114, 97, 116, 101, 100, 46, 103, 111>>
            /\ Cardinality(absent) = 1 => Len(resp.file) = Len(req.file_to_generate) - 1

C1_Witness ==
    /\ pc = "returned"
    /\ req.file_to_generate = <<<<122>>, <<120, 121>>>>                 \* "z", "xy"
    /\ Len(req.proto_file) = 2
    /\ Len(resp.file) = 1
    /\ resp.file[1].name = <<120, 121, 46, 103, 101, 110, 101, 114, 97, 116, 101, 100, 46, 103, 111>>

\* Index of the first descriptor of that name in pool order
FirstInPool(fileName) ==
    CHOOSE k \in DOMAIN req.proto_file :
        /\ req.proto_file[k].name = fileName
        /\ \A j \in 1..(k - 1) : req.proto_file[j].name # fileName

\* C7: when the pool holds several descriptors of a requested name, the
\* record's content is the File Emitter output of the first of them in pool
\* order, never of a later one, and a name requested once produces exactly
\* one record.
C7_FirstMatchWins ==
    pc = "returned" =>
        /\ Len(resp.file) = Len(MatchedNames)
        /\ \A k \in DOMAIN resp.file :
              resp.file[k].content = generateFile(req.proto_file[FirstInPool(MatchedNames[k])])
        /\ \A i \in DOMAIN req.file_to_generate :
              LET n == req.file_to_generate[i]
              IN  (InPool(n) /\ \A j \in DOMAIN req.file_to_generate :
                                    req.file_to_generate[j] = n => j = i)
                  => Cardinality({k \in DOMAIN resp.file : resp.file[k].name = n \o LitGeneratedGo}) = 1

C7_Witness ==
    /\ pc = "returned"
    /\ Len(req.proto_file) = 2
    /\ req.proto_file[1].name = req.proto_file[2].name
    /\ generateFile(req.proto_file[1]) # generateFile(req.proto_file[2])
    /\ req.file_to_generate = <<req.proto_file[1].name>>
    /\ Len(resp.file) = 1
    /\ resp.file[1].content = generateFile(req.proto_file[1])

\* C9: every response Generate returns has its capability field set to
\* exactly the optional-presence feature bit, also when the names to generate
\* are empty and when no requested name matches, so that no record is made.
C9_CapabilityAlwaysSet ==
    pc = "returned" => resp.supported_features = 1

C9_Witness ==
    /\ pc = "returned"
    /\ req.file_to_generate # <<>>
    /\ resp.file = <<>>
    /\ resp.supported_features = 1

-----------------------------------------------------------------------------
(* Property of the multi-target proxy *)

\* C10: ServeHTTP forwards every request whose path begins with "/api" to
\* localhost:8081, every request whose path begins with "/static" to
\* localhost:8082, and uses localhost:8083 only for paths matching no other
\* route, whatever order the route table is iterated in.
C10_LongestRouteServes ==
    \A k \in DOMAIN forwarded :
        LET e == forwarded[k]
        IN  /\ HasPrefix(e.path, PathApi) => e.target = Target8081
            /\ HasPrefix(e.path, PathStatic) => e.target = Target8082
            /\ e.target = Target8083 =>
                   ~HasPrefix(e.path, PathApi) /\ ~HasPrefix(e.path, PathStatic)

=============================================================================
